---- MODULE Spec2Model ----
(***************************************************************************)
(* NetworkApplications.py: the ICMP tools ping (ICMPPing), traceroute      *)
(* (Traceroute) and paris-traceroute (ParisTraceroute).                    *)
(*                                                                         *)
(* One behaviour is one run of the program: setupArgumentParser picks the  *)
(* sub-command (args.func) and its arguments, then args.func(args) runs    *)
(* the constructor of the chosen class.  The program is single threaded;   *)
(* pc is the position of that one thread.  The network and the resolver    *)
(* are the environment: what recvfrom returns (a datagram, or a timeout    *)
(* when the socket has one), whether sendto raises, whether the forward    *)
(* and the reverse lookups succeed.  An exception nobody catches ends the  *)
(* run (pc = "failed").                                                    *)
(***************************************************************************)
EXTENDS Integers, Sequences, FiniteSets, TLC

VARIABLES
    args,         \* the argparse namespace: func, hostname resolvable, protocol, count
    pc,           \* position of the program
    error,        \* the uncaught exception that ended the run, "none" otherwise
    sock,         \* the raw socket icmpS/icmpSocket: "none", "open", "closed"
    sockTimeout,  \* its timeout in seconds, 0 when it has none (blocking)
    sockTTL,      \* its IP_TTL option, 0 while the program has not set it
    ttl,          \* Traceroute/ParisTraceroute: ttl
    i,            \* Traceroute/ParisTraceroute: probes done in for i in range(3)
    send_data,    \* the packed Echo-Request (type, identifier, sequence)
    recv_data,    \* the last datagram recvfrom returned (type, identifier, sequence)
    ovr_time,     \* the list of measured times of the current hop
    rtt,          \* ParisTraceroute: the list of running medians of the current hop
    packetSent,   \* ParisTraceroute: packetSent
    packetRecvd,  \* ParisTraceroute: packetRecvd
    packet_loss,  \* ParisTraceroute: packet_loss, the fraction <<numerator, denominator>>
    icmp_type,    \* the type unpacked from recv_data, -1 while unassigned
    iter,         \* ICMPPing: completed iterations of while not stop
    delay,        \* ICMPPing: the delay receiveOnePing returned, 0 while none
    hopLines,     \* number of hop lines printed by printMultipleResults
    lastHop,      \* the hop line printed by the current pass of while True (ttl,
                  \* measurements), NoHop until that pass prints it
    summary,      \* the closing line: "none", "result" (printOneResult) or "loss"
    sentLog,      \* history: every probe handed to sendto, in order
    recvCount,    \* history: number of recvfrom calls that returned a datagram
    outcomes,     \* history: per probe of the current hop, "reply" or "timeout"
    hopType0,     \* history: a type-0 datagram was received for the current ttl
    sessTimes,    \* history: every time ParisTraceroute measured in the session, in
                  \* order (kept only when scope.samples)
    scope,        \* what a specification follows: the scan up to ttl scope.hops, and
                  \* whether sessTimes is kept
    ck            \* the checksum computation: host byte order, input, answer, packet

vars == <<args, pc, error, sock, sockTimeout, sockTTL, ttl, i, send_data, recv_data,
          ovr_time, rtt, packetSent, packetRecvd, packet_loss, icmp_type, iter, delay,
          hopLines, lastHop, summary, sentLog, recvCount, outcomes, hopType0,
          sessTimes, scope, ck>>

----------------------------------------------------------------------------
(* Bounds of the model *)

\* the scan is followed up to this ttl (the code itself never stops it)
MaxProbeTTL == 31
\* measured times are drawn from 1..MaxRTT
MaxRTT == 2
\* ping iterations followed (while not stop never ends by itself)
MaxPings == 3
\* largest --count value tried
MaxCount == 2
\* hops followed when every measured time of the session is kept
MaxSessionHops == 2
\* longest byte string given to checksum
MaxLen == 4

(* Program constants *)

\* "30 max hops", the hop budget the sessions announce
MaxHops == 30
\* for i in range(3)
ProbesPerHop == 3
\* icmpS.settimeout(5), receiveOnePing(..., 5)
RecvTimeout == 5
\* ICMP type of an Echo-Request, struct.pack("BBHHH", 8, ...)
EchoRequest == 8
\* ICMP type of an Echo-Reply, if icmp_type == 0
EchoReply == 0
\* ICMP type of Time-Exceeded, what a router answers when the ttl runs out
TimeExceeded == 11

RTTs == 1..MaxRTT
ReplyTypes == {EchoReply, TimeExceeded}
NoPacket == [type |-> -1, id |-> 0, seq |-> 0]
NoHop == [ttl |-> 0, measurements |-> <<>>]

\* struct.pack("BBHHH", type, code, checksum, id, seq): the fields followed here
Pack(type, id, seq) == [type |-> type, id |-> id, seq |-> seq]

\* the datagrams recvfrom may return while probe w is outstanding: a raw ICMP
\* socket delivers every ICMP datagram the host receives, whatever its
\* identifier and sequence
Datagrams(w) == [type : ReplyTypes, id : {0, w.id}, seq : {0, w.seq}]

\* identifier and sequence of datagram d equal those of request w
Matches(d, w) == d.id = w.id /\ d.seq = w.seq

----------------------------------------------------------------------------
(* setupArgumentParser *)

Namespaces ==
    [func : {"ICMPPing"}, resolvable : BOOLEAN, protocol : {"none"}, count : 0..MaxCount]
    \cup
    [func : {"Traceroute", "ParisTraceroute"}, resolvable : BOOLEAN,
     protocol : {"icmp", "udp"}, count : {0}]

\* the program before args.func(args) is called
Start ==
    /\ args \in Namespaces
    /\ pc = "start"
    /\ error = "none"
    /\ sock = "none"
    /\ sockTimeout = 0
    /\ sockTTL = 0
    /\ ttl = 0
    /\ i = 0
    /\ send_data = NoPacket
    /\ recv_data = NoPacket
    /\ ovr_time = <<>>
    /\ rtt = <<>>
    /\ packetSent = 0
    /\ packetRecvd = 0
    /\ packet_loss = <<0, 1>>
    /\ icmp_type = -1
    /\ iter = 0
    /\ delay = 0
    /\ hopLines = 0
    /\ lastHop = NoHop
    /\ summary = "none"
    /\ sentLog = <<>>
    /\ recvCount = 0
    /\ outcomes = <<>>
    /\ hopType0 = FALSE
    /\ sessTimes = <<>>

\* no checksum computation is followed
CkIdle == [pc |-> "idle", littleEndian |-> TRUE, kind |-> "none", id |-> 0, seq |-> 0,
           data |-> <<>>, answer |-> 0, packet |-> <<>>]

\* a run of the program, the scan followed up to ttl MaxProbeTTL
Init ==
    /\ Start
    /\ scope = [hops |-> MaxProbeTTL, samples |-> FALSE]
    /\ ck = CkIdle

\* an exception propagates out of the constructor: nothing catches it
Raise(e) ==
    /\ pc' = "failed"
    /\ error' = e

----------------------------------------------------------------------------
(* ICMPPing *)

\* ICMPPing.__init__: print, gethostbyname, stop = False
PingInit ==
    /\ pc = "start"
    /\ args.func = "ICMPPing"
    /\ IF args.resolvable
         THEN pc' = "p_loop" /\ error' = error
         ELSE Raise("gaierror")
    /\ UNCHANGED <<ck, scope, sessTimes>>
    /\ UNCHANGED <<args, sock, sockTimeout, sockTTL, ttl, i, send_data, recv_data,
                   ovr_time, rtt, packetSent, packetRecvd, packet_loss, icmp_type,
                   iter, delay, hopLines, lastHop, summary, sentLog, recvCount,
                   outcomes, hopType0>>

\* while not stop: doOnePing(hostName, 5): socket.socket(...), settimeout(timeout)
DoOnePingOpen ==
    /\ pc = "p_loop"
    /\ iter < MaxPings
    /\ sock' = "open"
    /\ sockTimeout' = RecvTimeout
    /\ sockTTL' = 0
    /\ pc' = "p_send"
    /\ UNCHANGED <<ck, scope, sessTimes>>
    /\ UNCHANGED <<args, error, ttl, i, send_data, recv_data, ovr_time, rtt,
                   packetSent, packetRecvd, packet_loss, icmp_type, iter, delay,
                   hopLines, lastHop, summary, sentLog, recvCount, outcomes, hopType0>>

\* sendOnePing(icmpS, destinationAddress, 1): icmp_seq = 1, pack, checksum, sendto
SendOnePing ==
    /\ pc = "p_send"
    /\ send_data' = Pack(EchoRequest, 1, 1)
    /\ sentLog' = Append(sentLog, [ttl |-> sockTTL, id |-> 1, seq |-> 1])
    /\ pc' = "p_recv"
    /\ UNCHANGED <<ck, scope, sessTimes>>
    /\ UNCHANGED <<args, error, sock, sockTimeout, sockTTL, ttl, i, recv_data,
                   ovr_time, rtt, packetSent, packetRecvd, packet_loss, icmp_type,
                   iter, delay, hopLines, lastHop, summary, recvCount, outcomes,
                   hopType0>>

\* sendto raises OSError (e.g. network unreachable): it leaves doOnePing and __init__
SendOnePingFails ==
    /\ pc = "p_send"
    /\ Raise("oserror")
    /\ UNCHANGED <<ck, scope, sessTimes>>
    /\ UNCHANGED <<args, sock, sockTimeout, sockTTL, ttl, i, send_data, recv_data,
                   ovr_time, rtt, packetSent, packetRecvd, packet_loss, icmp_type,
                   iter, delay, hopLines, lastHop, summary, sentLog, recvCount,
                   outcomes, hopType0>>

\* the delay receiveOnePing returns for datagram d received after time t:
\* steps 5-6 compare nothing, whatever was received is timed and returned
ReceivedDelay(d, w, t) == t

\* receiveOnePing: settimeout, recvfrom returns a datagram, unpack, return time_received
ReceiveOnePing ==
    /\ pc = "p_recv"
    /\ \E d \in Datagrams(send_data), t \in RTTs :
         /\ recv_data' = d
         /\ icmp_type' = d.type
         /\ delay' = ReceivedDelay(d, send_data, t)
    /\ sockTimeout' = RecvTimeout
    /\ recvCount' = recvCount + 1
    /\ pc' = "p_close"
    /\ UNCHANGED <<ck, scope, sessTimes>>
    /\ UNCHANGED <<args, error, sock, sockTTL, ttl, i, send_data, ovr_time, rtt,
                   packetSent, packetRecvd, packet_loss, iter, hopLines, lastHop,
                   summary, sentLog, outcomes, hopType0>>

\* receiveOnePing: recvfrom raises socket.timeout; neither receiveOnePing, doOnePing
\* nor __init__ catches it, and icmpS.close() is not reached
ReceiveOnePingTimeout ==
    /\ pc = "p_recv"
    /\ sockTimeout' = RecvTimeout
    /\ Raise("timeout")
    /\ UNCHANGED <<ck, scope, sessTimes>>
    /\ UNCHANGED <<args, sock, sockTTL, ttl, i, send_data, recv_data, ovr_time, rtt,
                   packetSent, packetRecvd, packet_loss, icmp_type, iter, delay,
                   hopLines, lastHop, summary, sentLog, recvCount, outcomes, hopType0>>

\* doOnePing: icmpS.close(), print the delay; then time.sleep(1) in __init__
DoOnePingClose ==
    /\ pc = "p_close"
    /\ sock' = "closed"
    /\ iter' = iter + 1
    /\ pc' = "p_loop"
    /\ UNCHANGED <<ck, scope, sessTimes>>
    /\ UNCHANGED <<args, error, sockTimeout, sockTTL, ttl, i, send_data, recv_data,
                   ovr_time, rtt, packetSent, packetRecvd, packet_loss, icmp_type,
                   delay, hopLines, lastHop, summary, sentLog, recvCount, outcomes,
                   hopType0>>

Ping ==
    \/ PingInit
    \/ DoOnePingOpen
    \/ SendOnePing
    \/ SendOnePingFails
    \/ ReceiveOnePing
    \/ ReceiveOnePingTimeout
    \/ DoOnePingClose

----------------------------------------------------------------------------
(* Traceroute *)

\* the socket is opened before the hostname is looked up
TrInitSocketFirst ==
    /\ pc = "start"
    /\ args.func = "Traceroute"
    /\ sock' = "open"
    /\ sockTimeout' = 0
    /\ IF args.resolvable
         THEN /\ ttl' = 1
              /\ pc' = "t_hop"
              /\ error' = error
         ELSE /\ Raise("gaierror")
              /\ UNCHANGED ttl
    /\ UNCHANGED <<ck, scope, sessTimes>>
    /\ UNCHANGED <<args, sockTTL, i, send_data, recv_data, ovr_time, rtt, packetSent,
                   packetRecvd, packet_loss, icmp_type, iter, delay, hopLines, lastHop,
                   summary, sentLog, recvCount, outcomes, hopType0>>

\* Traceroute.__init__: gethostbyname, print, ttl = 1, socket.socket(...)
\* (the new socket has no timeout)
TrInit ==
    /\ pc = "start"
    /\ args.func = "Traceroute"
    /\ IF args.resolvable
         THEN /\ ttl' = 1
              /\ sock' = "open"
              /\ sockTimeout' = 0
              /\ pc' = "t_hop"
              /\ error' = error
         ELSE /\ Raise("gaierror")
              /\ UNCHANGED <<ttl, sock, sockTimeout>>
    /\ UNCHANGED <<ck, scope, sessTimes>>
    /\ UNCHANGED <<args, sockTTL, i, send_data, recv_data, ovr_time, rtt, packetSent,
                   packetRecvd, packet_loss, icmp_type, iter, delay, hopLines, lastHop,
                   summary, sentLog, recvCount, outcomes, hopType0>>

\* the Echo-Request of a hop: struct.pack("BBHHH", 8, 0, checksum, ttl, 1), the
\* identifier field is the ttl and the sequence field is 1
HopRequest(t) == Pack(EchoRequest, t, 1)

\* while True: ovr_time = [], setsockopt(IP_TTL, ttl), pack, checksum, pack
\* (IP_TTL takes 0..255, a larger value raises OSError)
TrHopBegin ==
    /\ pc = "t_hop"
    /\ ttl <= scope.hops
    /\ IF ttl <= 255
         THEN /\ sockTTL' = ttl
              /\ send_data' = HopRequest(ttl)
              /\ pc' = "t_send"
              /\ error' = error
         ELSE /\ Raise("oserror")
              /\ UNCHANGED <<sockTTL, send_data>>
    /\ ovr_time' = <<>>
    /\ i' = 0
    /\ outcomes' = <<>>
    /\ hopType0' = FALSE
    /\ lastHop' = NoHop
    /\ UNCHANGED <<ck, scope, sessTimes>>
    /\ UNCHANGED <<args, sock, sockTimeout, ttl, recv_data, rtt, packetSent,
                   packetRecvd, packet_loss, icmp_type, iter, delay, hopLines,
                   summary, sentLog, recvCount>>

\* for i in range(3): icmpS.sendto(send_data, (hostName, 1)), time_sent = time.time()
TrSend ==
    /\ pc = "t_send"
    /\ sentLog' = Append(sentLog, [ttl |-> sockTTL, id |-> send_data.id,
                                   seq |-> send_data.seq])
    /\ pc' = "t_recv"
    /\ UNCHANGED <<ck, scope, sessTimes>>
    /\ UNCHANGED <<args, error, sock, sockTimeout, sockTTL, ttl, i, send_data,
                   recv_data, ovr_time, rtt, packetSent, packetRecvd, packet_loss,
                   icmp_type, iter, delay, hopLines, lastHop, summary, recvCount,
                   outcomes, hopType0>>

\* sendto raises OSError: nothing catches it
TrSendFails ==
    /\ pc = "t_send"
    /\ Raise("oserror")
    /\ UNCHANGED <<ck, scope, sessTimes>>
    /\ UNCHANGED <<args, sock, sockTimeout, sockTTL, ttl, i, send_data, recv_data,
                   ovr_time, rtt, packetSent, packetRecvd, packet_loss, icmp_type,
                   iter, delay, hopLines, lastHop, summary, sentLog, recvCount,
                   outcomes, hopType0>>

\* the for loop is left one probe early
TrRecvTwoProbes ==
    /\ pc = "t_recv"
    /\ \E d \in Datagrams(send_data), t \in RTTs :
         /\ recv_data' = d
         /\ ovr_time' = Append(ovr_time, t)
         /\ hopType0' = (hopType0 \/ d.type = EchoReply)
    /\ i' = i + 1
    /\ outcomes' = Append(outcomes, "reply")
    /\ recvCount' = recvCount + 1
    /\ pc' = IF i + 1 >= ProbesPerHop - 1 THEN "t_report" ELSE "t_send"
    /\ UNCHANGED <<ck, scope, sessTimes>>
    /\ UNCHANGED <<args, error, sock, sockTimeout, sockTTL, ttl, send_data, rtt,
                   packetSent, packetRecvd, packet_loss, icmp_type, iter, delay,
                   hopLines, lastHop, summary, sentLog>>

\* recv_data, address = icmpS.recvfrom(1024), recv_time, ovr_time.append(...):
\* whatever datagram arrives is taken as the answer
TrRecv ==
    /\ pc = "t_recv"
    /\ \E d \in Datagrams(send_data), t \in RTTs :
         /\ recv_data' = d
         /\ ovr_time' = Append(ovr_time, t)
         /\ hopType0' = (hopType0 \/ d.type = EchoReply)
    /\ i' = i + 1
    /\ outcomes' = Append(outcomes, "reply")
    /\ recvCount' = recvCount + 1
    /\ pc' = IF i + 1 = ProbesPerHop THEN "t_report" ELSE "t_send"
    /\ UNCHANGED <<ck, scope, sessTimes>>
    /\ UNCHANGED <<args, error, sock, sockTimeout, sockTTL, ttl, send_data, rtt,
                   packetSent, packetRecvd, packet_loss, icmp_type, iter, delay,
                   hopLines, lastHop, summary, sentLog>>

\* recvfrom raises socket.timeout (only a socket with a timeout does): the for
\* loop has no try around it, the exception leaves __init__
TrRecvTimeout ==
    /\ pc = "t_recv"
    /\ sockTimeout > 0
    /\ outcomes' = Append(outcomes, "timeout")
    /\ Raise("timeout")
    /\ UNCHANGED <<ck, scope, sessTimes>>
    /\ UNCHANGED <<args, sock, sockTimeout, sockTTL, ttl, i, send_data, recv_data,
                   ovr_time, rtt, packetSent, packetRecvd, packet_loss, icmp_type,
                   iter, delay, hopLines, lastHop, summary, sentLog, recvCount,
                   hopType0>>

\* the scan stops when any probe of the hop was answered with type 0
TrHopEndAnyEchoReply ==
    /\ pc = "t_report"
    /\ \E reverseFound \in BOOLEAN :
         lastHop' = [ttl |-> ttl, measurements |-> ovr_time]
    /\ icmp_type' = recv_data.type
    /\ hopLines' = hopLines + 1
    /\ sockTimeout' = RecvTimeout
    /\ IF hopType0
         THEN pc' = "t_after" /\ ttl' = ttl
         ELSE pc' = "t_hop" /\ ttl' = ttl + 1
    /\ UNCHANGED <<ck, scope, sessTimes>>
    /\ UNCHANGED <<args, error, sock, sockTTL, i, send_data, recv_data, ovr_time, rtt,
                   packetSent, packetRecvd, packet_loss, iter, delay, summary, sentLog,
                   recvCount, outcomes, hopType0>>

\* try: unpack recv_data[20:28], gethostbyaddr, printMultipleResults, settimeout(5)
\* except socket.herror: printMultipleResults with the address, settimeout(5);
\* if icmp_type == 0: break; ttl += 1
TrHopEnd ==
    /\ pc = "t_report"
    /\ \E reverseFound \in BOOLEAN :
         lastHop' = [ttl |-> ttl, measurements |-> ovr_time]
    /\ icmp_type' = recv_data.type
    /\ hopLines' = hopLines + 1
    /\ sockTimeout' = RecvTimeout
    /\ IF recv_data.type = EchoReply
         THEN pc' = "t_after" /\ ttl' = ttl
         ELSE pc' = "t_hop" /\ ttl' = ttl + 1
    /\ UNCHANGED <<ck, scope, sessTimes>>
    /\ UNCHANGED <<args, error, sock, sockTTL, i, send_data, recv_data, ovr_time, rtt,
                   packetSent, packetRecvd, packet_loss, iter, delay, summary, sentLog,
                   recvCount, outcomes, hopType0>>

\* after the loop: if __name__ == "__main__": printOneResult(...); __init__ returns
TrFinish ==
    /\ pc = "t_after"
    /\ summary' = "result"
    /\ pc' = "done"
    /\ UNCHANGED <<ck, scope, sessTimes>>
    /\ UNCHANGED <<args, error, sock, sockTimeout, sockTTL, ttl, i, send_data,
                   recv_data, ovr_time, rtt, packetSent, packetRecvd, packet_loss,
                   icmp_type, iter, delay, hopLines, lastHop, sentLog, recvCount,
                   outcomes, hopType0>>

Trace ==
    \/ TrInit
    \/ TrHopBegin
    \/ TrSend
    \/ TrSendFails
    \/ TrRecv
    \/ TrRecvTimeout
    \/ TrHopEnd
    \/ TrFinish

----------------------------------------------------------------------------
(* ParisTraceroute *)

\* ParisTraceroute.__init__: gethostbyname, print, ttl = 1, socket.socket(...),
\* packet_loss = 0
PtInit ==
    /\ pc = "start"
    /\ args.func = "ParisTraceroute"
    /\ IF args.resolvable
         THEN /\ ttl' = 1
              /\ sock' = "open"
              /\ sockTimeout' = 0
              /\ packet_loss' = <<0, 1>>
              /\ pc' = "pt_hop"
              /\ error' = error
         ELSE /\ Raise("gaierror")
              /\ UNCHANGED <<ttl, sock, sockTimeout, packet_loss>>
    /\ UNCHANGED <<ck, scope, sessTimes>>
    /\ UNCHANGED <<args, sockTTL, i, send_data, recv_data, ovr_time, rtt, packetSent,
                   packetRecvd, icmp_type, iter, delay, hopLines, lastHop, summary,
                   sentLog, recvCount, outcomes, hopType0>>

\* the Echo-Request of a hop: struct.pack("BBHHH", 8, 0, checksum, ttl, 1), the
\* identifier field is the ttl and the sequence field is 1
ParisRequest(t) == Pack(EchoRequest, t, 1)

\* while True: ovr_time = [], packetSent = 0, packetRecvd = 0, rtt = [],
\* setsockopt(IP_TTL, ttl), pack, checksum, pack
PtHopBegin ==
    /\ pc = "pt_hop"
    /\ ttl <= scope.hops
    /\ IF ttl <= 255
         THEN /\ sockTTL' = ttl
              /\ send_data' = ParisRequest(ttl)
              /\ pc' = "pt_send"
              /\ error' = error
         ELSE /\ Raise("oserror")
              /\ UNCHANGED <<sockTTL, send_data>>
    /\ ovr_time' = <<>>
    /\ rtt' = <<>>
    /\ packetSent' = 0
    /\ packetRecvd' = 0
    /\ i' = 0
    /\ outcomes' = <<>>
    /\ hopType0' = FALSE
    /\ lastHop' = NoHop
    /\ UNCHANGED <<ck, scope, sessTimes>>
    /\ UNCHANGED <<args, sock, sockTimeout, ttl, recv_data, packet_loss, icmp_type,
                   iter, delay, hopLines, summary, sentLog, recvCount>>

\* for i in range(3): settimeout(5), sendto, packetSent += 1, time_sent = time.time()
PtSend ==
    /\ pc = "pt_send"
    /\ sockTimeout' = RecvTimeout
    /\ sentLog' = Append(sentLog, [ttl |-> sockTTL, id |-> send_data.id,
                                   seq |-> send_data.seq])
    /\ packetSent' = packetSent + 1
    /\ pc' = "pt_recv"
    /\ UNCHANGED <<ck, scope, sessTimes>>
    /\ UNCHANGED <<args, error, sock, sockTTL, ttl, i, send_data, recv_data, ovr_time,
                   rtt, packetRecvd, packet_loss, icmp_type, iter, delay, hopLines,
                   lastHop, summary, recvCount, outcomes, hopType0>>

\* settimeout(5), then sendto raises OSError: nothing catches it
PtSendFails ==
    /\ pc = "pt_send"
    /\ sockTimeout' = RecvTimeout
    /\ Raise("oserror")
    /\ UNCHANGED <<ck, scope, sessTimes>>
    /\ UNCHANGED <<args, sock, sockTTL, ttl, i, send_data, recv_data, ovr_time, rtt,
                   packetSent, packetRecvd, packet_loss, icmp_type, iter, delay,
                   hopLines, lastHop, summary, sentLog, recvCount, outcomes, hopType0>>

\* sorted(ovr_time)[len(ovr_time) // 2]
Median(s) == SortSeq(s, LAMBDA a, b : a < b)[(Len(s) \div 2) + 1]

\* the share of answered probes instead of the share of lost ones
PacketLossReceivedShare(sent, recvd) == <<recvd * 100, sent>>

\* (packetSent - packetRecvd) / packetSent * 100, kept as an exact fraction
PacketLoss(sent, recvd) == <<(sent - recvd) * 100, sent>>

\* recvfrom returns, packetRecvd += 1, ovr_time.append(...), rtt.append(median),
\* packet_loss = ...
PtRecv ==
    /\ pc = "pt_recv"
    /\ \E d \in Datagrams(send_data), t \in RTTs :
         /\ recv_data' = d
         /\ ovr_time' = Append(ovr_time, t)
         /\ rtt' = Append(rtt, Median(Append(ovr_time, t)))
         /\ hopType0' = (hopType0 \/ d.type = EchoReply)
         /\ sessTimes' = IF scope.samples THEN Append(sessTimes, t) ELSE sessTimes
    /\ packetRecvd' = packetRecvd + 1
    /\ packet_loss' = PacketLoss(packetSent, packetRecvd + 1)
    /\ i' = i + 1
    /\ outcomes' = Append(outcomes, "reply")
    /\ recvCount' = recvCount + 1
    /\ pc' = IF i + 1 = ProbesPerHop THEN "pt_report" ELSE "pt_send"
    /\ UNCHANGED <<ck, scope>>
    /\ UNCHANGED <<args, error, sock, sockTimeout, sockTTL, ttl, send_data, packetSent,
                   icmp_type, iter, delay, hopLines, lastHop, summary, sentLog>>

\* the timeout is caught and the for loop goes on with the next probe
PtRecvTimeoutCaught ==
    /\ pc = "pt_recv"
    /\ sockTimeout > 0
    /\ outcomes' = Append(outcomes, "timeout")
    /\ i' = i + 1
    /\ pc' = IF i + 1 = ProbesPerHop THEN "pt_report" ELSE "pt_send"
    /\ UNCHANGED <<ck, scope, sessTimes>>
    /\ UNCHANGED <<args, error, sock, sockTimeout, sockTTL, ttl, send_data, recv_data,
                   ovr_time, rtt, packetSent, packetRecvd, packet_loss, icmp_type,
                   iter, delay, hopLines, lastHop, summary, sentLog, recvCount,
                   hopType0>>

\* recvfrom raises socket.timeout: the for loop has no try around it, the
\* exception leaves __init__ before packet_loss is recomputed
PtRecvTimeout ==
    /\ pc = "pt_recv"
    /\ sockTimeout > 0
    /\ outcomes' = Append(outcomes, "timeout")
    /\ Raise("timeout")
    /\ UNCHANGED <<ck, scope, sessTimes>>
    /\ UNCHANGED <<args, sock, sockTimeout, sockTTL, ttl, i, send_data, recv_data,
                   ovr_time, rtt, packetSent, packetRecvd, packet_loss, icmp_type,
                   iter, delay, hopLines, lastHop, summary, sentLog, recvCount,
                   hopType0>>

\* if ovr_time: try: settimeout(5), unpack recv_data[20:28], gethostbyaddr,
\* printMultipleResults(ttl, addrName, rtt, host) except socket.herror: the same
\* with the address; if icmp_type == 0: break; ttl += 1
PtHopEnd ==
    /\ pc = "pt_report"
    /\ \E reverseFound \in BOOLEAN :
         lastHop' = [ttl |-> ttl, measurements |-> rtt]
    /\ icmp_type' = recv_data.type
    /\ hopLines' = hopLines + 1
    /\ sockTimeout' = RecvTimeout
    /\ IF recv_data.type = EchoReply
         THEN pc' = "pt_after" /\ ttl' = ttl
         ELSE pc' = "pt_hop" /\ ttl' = ttl + 1
    /\ UNCHANGED <<ck, scope, sessTimes>>
    /\ UNCHANGED <<args, error, sock, sockTTL, i, send_data, recv_data, ovr_time, rtt,
                   packetSent, packetRecvd, packet_loss, iter, delay, summary, sentLog,
                   recvCount, outcomes, hopType0>>

\* after the loop: if __name__ == "__main__": printAdditionalDetails(packet_loss)
PtFinish ==
    /\ pc = "pt_after"
    /\ summary' = "loss"
    /\ pc' = "done"
    /\ UNCHANGED <<ck, scope, sessTimes>>
    /\ UNCHANGED <<args, error, sock, sockTimeout, sockTTL, ttl, i, send_data,
                   recv_data, ovr_time, rtt, packetSent, packetRecvd, packet_loss,
                   icmp_type, iter, delay, hopLines, lastHop, sentLog, recvCount,
                   outcomes, hopType0>>

Paris ==
    \/ PtInit
    \/ PtHopBegin
    \/ PtSend
    \/ PtSendFails
    \/ PtRecv
    \/ PtRecvTimeout
    \/ PtHopEnd
    \/ PtFinish

Next == Ping \/ Trace \/ Paris

Spec == Init /\ [][Next]_vars

\* a ParisTraceroute run followed for MaxSessionHops hops, all its times kept
MedianInit ==
    /\ Start
    /\ scope = [hops |-> MaxSessionHops, samples |-> TRUE]
    /\ ck = CkIdle

MedianSpec == MedianInit /\ [][Next]_vars

----------------------------------------------------------------------------
(* NetworkApplication.checksum and the header sendOnePing builds with it *)

\* byte values and 16-bit field values the inputs are built from
SampleBytes == {0, 1, 127, 128, 255}
SampleWords == {0, 1, 2, 255, 256, 65535}

\* the byte strings of length n over SampleBytes
RECURSIVE ByteStrings(_)
ByteStrings(n) ==
    IF n = 0 THEN {<<>>}
    ELSE {Append(b, x) : b \in ByteStrings(n - 1), x \in SampleBytes}

\* answer >> 8 | (answer << 8 & 0xff00), for a 16-bit answer
SwapBytes(v) == (v \div 256) + ((v % 256) * 256)

\* socket.htons: swaps the bytes on a little-endian host, the identity on a
\* big-endian one
htons(v, littleEndian) == IF littleEndian THEN SwapBytes(v) ELSE v

\* the two bytes struct.pack writes for an "H" field (native byte order)
PackH(v, littleEndian) ==
    IF littleEndian THEN <<v % 256, v \div 256>> ELSE <<v \div 256, v % 256>>

\* struct.pack("BBHHH", type, code, checksum, ID, seq): the 8 bytes
StructPack(type, code, cksum, id, seq, littleEndian) ==
    <<type, code>> \o PackH(cksum, littleEndian) \o PackH(id, littleEndian)
                   \o PackH(seq, littleEndian)

\* csum & 0xffffffff: the low 32 bits, taken 16 bits at a time
Mask32(v) == (((v \div 65536) % 65536) * 65536) + (v % 65536)

\* while count < countTo: thisVal = data[count+1] * 256 + data[count],
\* csum = csum + thisVal, csum = csum & 0xffffffff, count += 2   (count is 0-based)
RECURSIVE SumWords(_, _, _, _)
SumWords(dataToChecksum, count, countTo, csum) ==
    IF count < countTo
      THEN SumWords(dataToChecksum, count + 2, countTo,
                    Mask32(csum + dataToChecksum[count + 2] * 256
                                + dataToChecksum[count + 1]))
      ELSE csum

\* the odd last byte is left out of the sum
checksumDropsOddByte(dataToChecksum, littleEndian) ==
    LET countTo == (Len(dataToChecksum) \div 2) * 2
        summed  == SumWords(dataToChecksum, 0, countTo, 0)
        folded  == (summed \div 65536) + (summed % 65536)
        carried == folded + (folded \div 65536)
        answer  == 65535 - (carried % 65536)
    IN  htons(SwapBytes(answer), littleEndian)

\* NetworkApplication.checksum
checksum(dataToChecksum, littleEndian) ==
    LET countTo == (Len(dataToChecksum) \div 2) * 2
        summed  == SumWords(dataToChecksum, 0, countTo, 0)
        withOdd == IF countTo < Len(dataToChecksum)
                     THEN Mask32(summed + dataToChecksum[Len(dataToChecksum)])
                     ELSE summed
        folded  == (withOdd \div 65536) + (withOdd % 65536)
        carried == folded + (folded \div 65536)
        answer  == 65535 - (carried % 65536)
    IN  htons(SwapBytes(answer), littleEndian)

\* the inputs: any byte string up to MaxLen bytes, or the header sendOnePing and
\* the hop scans pack with a zero checksum field
CkInit ==
    /\ Start
    /\ args = [func |-> "ICMPPing", resolvable |-> TRUE, protocol |-> "none", count |-> 0]
    /\ scope = [hops |-> MaxProbeTTL, samples |-> FALSE]
    /\ \E le \in BOOLEAN :
         \/ \E n \in 0..MaxLen : \E b \in ByteStrings(n) :
              ck = [pc |-> "input", littleEndian |-> le, kind |-> "bytes", id |-> 0,
                    seq |-> 0, data |-> b, answer |-> 0, packet |-> <<>>]
         \/ \E id \in SampleWords, seq \in SampleWords :
              ck = [pc |-> "input", littleEndian |-> le, kind |-> "header", id |-> id,
                    seq |-> seq, data |-> StructPack(EchoRequest, 0, 0, id, seq, le),
                    answer |-> 0, packet |-> <<>>]

\* icmp_checksum = NetworkApplication.checksum(self, icmp_header)
CkCompute ==
    /\ ck.pc = "input"
    /\ ck' = [ck EXCEPT !.pc = "summed", !.answer = checksum(ck.data, ck.littleEndian)]
    /\ UNCHANGED <<args, pc, error, sock, sockTimeout, sockTTL, ttl, i, send_data,
                   recv_data, ovr_time, rtt, packetSent, packetRecvd, packet_loss,
                   icmp_type, iter, delay, hopLines, lastHop, summary, sentLog,
                   recvCount, outcomes, hopType0, sessTimes, scope>>

\* icmp_header = struct.pack("BBHHH", icmp_type, icmp_code, icmp_checksum, ID, icmp_seq)
CkRepack ==
    /\ ck.pc = "summed"
    /\ ck.kind = "header"
    /\ ck' = [ck EXCEPT !.pc = "packed",
                        !.packet = StructPack(EchoRequest, 0, ck.answer, ck.id, ck.seq,
                                              ck.littleEndian)]
    /\ UNCHANGED <<args, pc, error, sock, sockTimeout, sockTTL, ttl, i, send_data,
                   recv_data, ovr_time, rtt, packetSent, packetRecvd, packet_loss,
                   icmp_type, iter, delay, hopLines, lastHop, summary, sentLog,
                   recvCount, outcomes, hopType0, sessTimes, scope>>

CkNext == CkCompute \/ CkRepack

CkSpec == CkInit /\ [][CkNext]_vars

----------------------------------------------------------------------------
(* Properties *)

IsPing == args.func = "ICMPPing"
IsHopScan == args.func \in {"Traceroute", "ParisTraceroute"}

\* the k-th probe of a hop scan carries ttl 1 for the first three probes, 2 for
\* the next three, and so on
TTLsContiguous ==
    \A k \in 1..Len(sentLog) : sentLog[k].ttl = ((k - 1) \div ProbesPerHop) + 1

\* C1: the ttl values probed by a hop scan are 1, 2, 3, ... with none skipped or
\* repeated as a hop; the scan is not continued past a ttl for which a type-0
\* reply was received, and it leaves the loop only at a ttl for which one was.
C1_StopsAtFirstEchoReply ==
    IsHopScan =>
        /\ TTLsContiguous
        /\ (pc \in {"t_hop", "pt_hop"} /\ ttl > 1) => ~hopType0
        /\ pc \in {"t_after", "pt_after", "done"} => hopType0

\* C2: a hop scan never sends a probe with a ttl above max-ttl = 30.
C2_NeverBeyondMaxHops ==
    IsHopScan => \A k \in 1..Len(sentLog) : sentLog[k].ttl <= MaxHops

\* C3: ping takes a datagram as the result of its probe (receiveOnePing has
\* returned its delay to doOnePing) only if the datagram's identifier and
\* sequence are those of the request just sent.
C3_PingResultMatchesRequest ==
    (IsPing /\ pc = "p_close") => Matches(recv_data, send_data)

\* C4: in a hop scan a received datagram whose identifier/sequence differ from
\* the outstanding probe's adds no sample to the hop, and the datagram that
\* makes the scan stop is one that matches the probe.
C4_MismatchedReplyDiscarded ==
    [][/\ (/\ pc \in {"t_recv", "pt_recv"}
           /\ pc' \in {"t_send", "pt_send", "t_report", "pt_report"}
           /\ ~Matches(recv_data', send_data))
          => ovr_time' = ovr_time
       /\ (/\ pc \in {"t_report", "pt_report"}
           /\ pc' \in {"t_after", "pt_after"})
          => Matches(recv_data, send_data)]_vars

\* C5: in Traceroute a probe that times out leaves a loss marker (no number) at
\* its place among the samples of its hop and does not end the scan, and a
\* reported hop carries exactly three samples.
C5_TimeoutRecordedAsLoss ==
    args.func = "Traceroute" =>
        /\ \A k \in 1..Len(outcomes) :
              outcomes[k] = "timeout" => (k <= Len(ovr_time) /\ ovr_time[k] \notin RTTs)
        /\ error # "timeout"
        /\ lastHop # NoHop => Len(lastHop.measurements) = ProbesPerHop

\* C6: in ping a probe that times out does not end the loop: the following
\* iterations still run.
C6_PingContinuesAfterTimeout ==
    IsPing => ~(pc = "failed" /\ error = "timeout")

\* C7: every probe of one ParisTraceroute session carries the identifier and
\* the sequence of the session's first probe.
C7_FlowSignatureConstant ==
    args.func = "ParisTraceroute" =>
        \A k \in 1..Len(sentLog) :
            sentLog[k].id = sentLog[1].id /\ sentLog[k].seq = sentLog[1].seq

C9_PingSocketReleased ==
    (IsPing /\ pc \in {"p_loop", "failed", "done"}) => sock # "open"

\* C10: a hop scan holds one socket from its start on, and once the scan has
\* ended that socket is closed.
C10_SessionSocketClosed ==
    IsHopScan =>
        /\ pc \notin {"start", "failed"} => sock # "none"
        /\ pc = "done" => sock = "closed"

\* the program waits in recvfrom
InRecv == pc \in {"p_recv", "t_recv", "pt_recv"}

\* C11: whenever the program waits in recvfrom, from the first probe on, the
\* socket has a timeout, so a receive that gets no datagram ends in a timeout
\* instead of blocking forever.
C11_ReceiveBounded ==
    InRecv => sockTimeout > 0

\* C12: ping started with a count n runs no more than n iterations and sends no
\* more than n probes.
C12_PingStopsAtCount ==
    (IsPing /\ args.count > 0) =>
        /\ iter <= args.count
        /\ Len(sentLog) <= args.count

\* C13: in one ping session every Echo-Request carries a larger sequence number
\* than the request before it.
C13_PingSequenceIncreases ==
    IsPing =>
        \A k \in 1..(Len(sentLog) - 1) : sentLog[k + 1].seq > sentLog[k].seq

\* C14: a hop scan started with protocol udp sends no ICMP probe, opens no
\* hop and ends in an error.
C14_UdpUnsupported ==
    (IsHopScan /\ args.protocol = "udp") =>
        /\ Len(sentLog) = 0
        /\ pc \in {"start", "failed"}

\* C15: when the hostname does not resolve, the run fails on the lookup with no
\* socket opened, no probe sent, no hop line and no closing line printed.
C15_UnresolvableFailsEarly ==
    ~args.resolvable =>
        /\ sock = "none"
        /\ Len(sentLog) = 0
        /\ hopLines = 0
        /\ summary = "none"
        /\ pc \in {"start", "failed"}
        /\ pc = "failed" => error = "gaierror"

\* a run that failed on the lookup of an unresolvable hostname
C15_Witness ==
    /\ ~args.resolvable
    /\ pc = "failed"
    /\ error = "gaierror"

\* receives that have ended: with a datagram, or with the timeout that ended the run
Completed == recvCount + (IF error = "timeout" THEN 1 ELSE 0)

\* C18: exactly one probe is outstanding while the program waits in recvfrom and
\* none otherwise (each send is followed by its receive before the next send),
\* and a hop scan moves to the next ttl only when the three probes of the
\* current ttl have been sent and answered.
C18_OneProbeAtATime ==
    /\ Len(sentLog) - Completed = (IF InRecv THEN 1 ELSE 0)
    /\ IsHopScan =>
         /\ TTLsContiguous
         /\ ttl >= 1 => recvCount >= ProbesPerHop * (ttl - 1)
         /\ (pc \in {"t_hop", "pt_hop"} /\ ttl > 1) =>
               (i = ProbesPerHop /\ Len(sentLog) = ProbesPerHop * (ttl - 1))

\* a hop scan at its second ttl, waiting for the answer to the probe just sent
C18_Witness ==
    /\ IsHopScan
    /\ ttl = 2
    /\ InRecv
    /\ Len(sentLog) = ProbesPerHop + 2

\* C19: in ParisTraceroute packetRecvd equals packetSent wherever packet_loss has
\* just been computed, packet_loss is never anything but 0, and so the closing
\* line prints 0.
C19_ParisLossAlwaysZero ==
    args.func = "ParisTraceroute" =>
        /\ packet_loss[1] = 0
        /\ pc \in {"pt_hop", "pt_send", "pt_report", "pt_after", "done"}
              => packetRecvd = packetSent
        /\ pc = "pt_recv" => packetSent = packetRecvd + 1

\* a ParisTraceroute session that printed 0 although the datagram that ended it
\* did not carry the probe's identifier and sequence
C19_Witness ==
    /\ args.func = "ParisTraceroute"
    /\ summary = "loss"
    /\ packet_loss = <<0, ProbesPerHop>>
    /\ ~Matches(recv_data, send_data)

\* C20: a hop scan goes on to the next ttl exactly when the datagram received
\* for the third probe is not of type 0, and stops exactly when it is,
\* whatever the first two probes received.
C20_StopDecidedByLastProbe ==
    IsHopScan =>
        /\ (pc \in {"t_hop", "pt_hop"} /\ ttl > 1) =>
              (i = ProbesPerHop /\ recv_data.type # EchoReply)
        /\ pc \in {"t_after", "pt_after", "done"} =>
              (i = ProbesPerHop /\ recv_data.type = EchoReply)

\* the scan moved on to ttl 2 although a probe of ttl 1 received a type-0 datagram
C20_Witness ==
    /\ IsHopScan
    /\ pc \in {"t_hop", "pt_hop"}
    /\ ttl = 2
    /\ hopType0
    /\ recv_data.type # EchoReply

\* one's-complement addition of two 16-bit values: the carry out of bit 15 is
\* added back in
OnesAdd(a, b) == IF a + b > 65535 THEN a + b - 65535 ELSE a + b

\* the one's-complement sum of the big-endian 16-bit words of an even-length
\* byte string, from byte k on
RECURSIVE OnesSumFrom(_, _)
OnesSumFrom(d, k) ==
    IF k > Len(d) THEN 0
    ELSE OnesAdd(d[k] * 256 + d[k + 1], OnesSumFrom(d, k + 2))

\* RFC 1071: an odd final byte is padded with a zero byte, the words are added
\* with end-around carry, the result is complemented
ZeroPadded(d) == IF Len(d) % 2 = 1 THEN Append(d, 0) ELSE d
RFC1071(d) == 65535 - OnesSumFrom(ZeroPadded(d), 1)

\* C16: for every input, of even or odd length, checksum returns a 16-bit value
\* which, stored as struct.pack stores it, is the RFC 1071 checksum of the input
\* in network byte order; the 8-byte header packed again with that value has
\* the one's-complement word sum 0xFFFF.
C16_ChecksumIsRFC1071 ==
    /\ ck.pc \in {"summed", "packed"} =>
         /\ ck.answer \in 0..65535
         /\ PackH(ck.answer, ck.littleEndian)
              = <<RFC1071(ck.data) \div 256, RFC1071(ck.data) % 256>>
    /\ ck.pc = "packed" => OnesSumFrom(ck.packet, 1) = 65535

\* the header of sendOnePing (identifier 1, sequence 1) packed with its checksum
C16_Witness ==
    /\ ck.pc = "packed"
    /\ ck.id = 1
    /\ ck.seq = 1
    /\ Len(ck.packet) = 8

\* C17: the hop line of ParisTraceroute carries one value, the median of all the
\* times measured in the session so far.
C17_HopReportsSessionMedian ==
    (args.func = "ParisTraceroute" /\ lastHop # NoHop) =>
        lastHop.measurements = <<Median(sessTimes)>>

====
